---- MODULE Spec2Model ----
(***************************************************************************)
(* TerraScope land-health dashboard (src/app.py): one run of the page      *)
(* script.  The script fetches every row of the remote table land_data,    *)
(* classifies each row, draws one map marker per row that has both         *)
(* coordinates, shows the data table, then renders the entry form and, on  *)
(* submit, classifies the entered readings and inserts the record.         *)
(*                                                                         *)
(* Units.  soil_moisture is in percent and temperature in degrees Celsius, *)
(* as in the source.  vegetation_index is held in hundredths, so the       *)
(* source's 0.3 and 0.5 read 30 and 50 here and the slider's 0.0 .. 1.0    *)
(* reads 0 .. 100.  The three readings of a stored row are numbers (the    *)
(* columns of land_data are numeric); latitude and longitude of a stored   *)
(* row may be a number, null, or text.                                     *)
(***************************************************************************)
EXTENDS Integers, Sequences, FiniteSets

VARIABLES
    pc,          \* position of the page script
    land_data,   \* the remote table: sequence of stored rows
    data,        \* the DataFrame built from the fetched rows
    markers,     \* the CircleMarkers added to the map, in order
    map_shown,   \* st_folium was called
    table,       \* the rows handed to st.dataframe (<<>> when not shown)
    messages,    \* the st.warning / st.success / st.error boxes shown
    form,        \* the widget values of land_form in this run
    insert_data, \* the record built on submit (<<>> when none)
    args,        \* reading triples handed to the classifier on its own
    results      \* what the classifier returned for args

vars == <<pc, land_data, data, markers, map_shown, table, messages, form,
          insert_data, args, results>>

\* Largest number of rows the remote table holds when the run starts.
MaxRows == 2

----------------------------------------------------------------------------
(* Cell values of the latitude / longitude columns as the store returns    *)
(* them, and the float64 cells pandas makes of them.                       *)

Num(n)   == [kind |-> "num",  num |-> n, text |-> ""]
Null     == [kind |-> "null", num |-> 0, text |-> ""]
Text(s)  == [kind |-> "text", num |-> 0, text |-> s]
NaN      == [kind |-> "nan",  num |-> 0, text |-> ""]

\* The texts that parse as a number, with their values.
NumericTexts == {"9", "8"}
ParseText(s) == IF s = "9" THEN 9 ELSE 8

\* pd.to_numeric(cell, errors="coerce"): a number stays, a numeric text is
\* parsed, null and any other text become NaN.
to_numeric(cell) ==
    IF cell.kind = "num" THEN Num(cell.num)
    ELSE IF cell.kind = "text" /\ cell.text \in NumericTexts
         THEN Num(ParseText(cell.text))
    ELSE NaN

\* pd.notnull on a coerced cell.
notnull(cell) == cell.kind # "nan"

----------------------------------------------------------------------------
(* The classifier and the lookups keyed by its result.                     *)

\* The three status values.  The middle tier, AtRisk in the specification,
\* is the string "At Risk" in the source.
Healthy  == "Healthy"
AtRisk   == "At Risk"
Degraded == "Degraded"

\* classify_land requiring every axis to fail, not any one of them.
classify_land_all_axes(vegetation_index, soil_moisture, temperature) ==
    IF vegetation_index < 30 /\ soil_moisture < 20 /\ temperature > 35
    THEN Degraded
    ELSE IF vegetation_index < 50 /\ soil_moisture < 35
    THEN AtRisk
    ELSE Healthy

\* classify_land whose At Risk tier leaves out the soil moisture test.
classify_land_no_soil_risk(vegetation_index, soil_moisture, temperature) ==
    IF vegetation_index < 30 \/ soil_moisture < 20 \/ temperature > 35
    THEN Degraded
    ELSE IF vegetation_index < 50
    THEN AtRisk
    ELSE Healthy

\* classify_land with the At Risk bounds inclusive.
classify_land_inclusive(vegetation_index, soil_moisture, temperature) ==
    IF vegetation_index < 30 \/ soil_moisture < 20 \/ temperature > 35
    THEN Degraded
    ELSE IF vegetation_index <= 50 \/ soil_moisture <= 35
    THEN AtRisk
    ELSE Healthy

\* classify_land with the temperature comparison turned round.
classify_land_cold(vegetation_index, soil_moisture, temperature) ==
    IF vegetation_index < 30 \/ soil_moisture < 20 \/ temperature < 35
    THEN Degraded
    ELSE IF vegetation_index < 50 \/ soil_moisture < 35
    THEN AtRisk
    ELSE Healthy

\* classify_land without its final else: the healthy case returns None.
classify_land_no_else(vegetation_index, soil_moisture, temperature) ==
    IF vegetation_index < 30 \/ soil_moisture < 20 \/ temperature > 35
    THEN Degraded
    ELSE IF vegetation_index < 50 \/ soil_moisture < 35
    THEN AtRisk
    ELSE "None"

classify_land(vegetation_index, soil_moisture, temperature) ==
    IF vegetation_index < 30 \/ soil_moisture < 20 \/ temperature > 35
    THEN Degraded
    ELSE IF vegetation_index < 50 \/ soil_moisture < 35
    THEN AtRisk
    ELSE Healthy

get_suggestion(status) ==
    IF status = Degraded
    THEN "Recommend: Reforestation or irrigation to restore soil health."
    ELSE IF status = AtRisk
    THEN "Recommend: Mulching, cover crops, or moderate irrigation."
    ELSE "Land is healthy. Maintain current practices."

get_color(status) ==
    IF status = Degraded THEN "red"
    ELSE IF status = AtRisk THEN "orange"
    ELSE "green"

----------------------------------------------------------------------------
(* The remote table.                                                       *)

\* Readings of the rows found in the table: a healthy row, a row with soil
\* moisture between 20 and 30, and a row outside the expected ranges
\* (negative soil moisture, vegetation index above 1).
StoredReadings ==
    { [soil_moisture |-> 40, vegetation_index |-> 50,  temperature |-> 28],
      [soil_moisture |-> 25, vegetation_index |-> 60,  temperature |-> 25],
      [soil_moisture |-> -5, vegetation_index |-> 110, temperature |-> 25] }

\* Coordinates of the rows found in the table: both present, latitude
\* null, longitude a text that is no number, latitude a numeric text.
StoredCoordinates ==
    { <<Num(9), Num(8)>>, <<Null, Num(8)>>, <<Num(9), Text("n/a")>>,
      <<Text("9"), Num(8)>> }

\* Location and status columns as stored: a row ingested without a status,
\* and a row stored with a status by an earlier submission.
StoredLabels ==
    { [location |-> "Abuja", status |-> "", suggestion |-> ""],
      [location |-> "Kano",  status |-> Healthy,
       suggestion |-> "Land is healthy. Maintain current practices."] }

\* A row of the table; the store gives it its id and timestamp.
StoredRow(r, c, l) ==
    [id               |-> 0,
     timestamp        |-> 0,
     location         |-> l.location,
     latitude         |-> c[1],
     longitude        |-> c[2],
     soil_moisture    |-> r.soil_moisture,
     vegetation_index |-> r.vegetation_index,
     temperature      |-> r.temperature,
     status           |-> l.status,
     suggestion       |-> l.suggestion]

StoredRows ==
    { StoredRow(r, c, l) : r \in StoredReadings, c \in StoredCoordinates,
                           l \in StoredLabels }

\* The record as the store keeps it at position i: ids and timestamps are
\* assigned in insertion order.
Stored(record, i) ==
    [id               |-> i,
     timestamp        |-> i,
     location         |-> record.location,
     latitude         |-> record.latitude,
     longitude        |-> record.longitude,
     soil_moisture    |-> record.soil_moisture,
     vegetation_index |-> record.vegetation_index,
     temperature      |-> record.temperature,
     status           |-> record.status,
     suggestion       |-> record.suggestion]

Tables ==
    UNION { { [i \in 1..n |-> Stored(t[i], i)] : t \in [1..n -> StoredRows] } :
            n \in 0..MaxRows }

----------------------------------------------------------------------------
(* Fetch data (lines 25-35).                                               *)

FetchOk ==
    /\ pc = "fetch"
    /\ data' = land_data
    /\ messages' = Append(messages,
                          IF land_data = <<>>
                          THEN "warning: No land data found in Supabase."
                          ELSE "success: Data fetched successfully from Supabase.")
    /\ pc' = "display"
    /\ UNCHANGED <<land_data, markers, map_shown, table, form, insert_data,
                   args, results>>

\* The fetch without its except clause: the error leaves the script.
FetchFailed_propagates ==
    /\ pc = "fetch"
    /\ pc' = "crashed"
    /\ UNCHANGED <<land_data, data, markers, map_shown, table, messages, form,
                   insert_data, args, results>>

FetchFailed ==
    /\ pc = "fetch"
    /\ messages' = Append(messages, "error: Failed to fetch data")
    /\ data' = <<>>
    /\ pc' = "display"
    /\ UNCHANGED <<land_data, markers, map_shown, table, form, insert_data,
                   args, results>>

----------------------------------------------------------------------------
(* Show map and table if data exists (lines 62-124).                       *)

\* ClassifiedRow that keeps a status already stored with the row.
ClassifiedRow_keep_stored(row) ==
    LET status == IF row.status # "" THEN row.status
                  ELSE classify_land(row.vegetation_index, row.soil_moisture,
                                     row.temperature)
    IN  [row EXCEPT !.latitude   = to_numeric(row.latitude),
                    !.longitude  = to_numeric(row.longitude),
                    !.status     = status,
                    !.suggestion = get_suggestion(status)]

\* Lines 64-72 for one row: coerce the coordinates, then set the status and
\* suggestion columns from the row's own readings.
ClassifiedRow(row) ==
    LET status == classify_land(row.vegetation_index, row.soil_moisture,
                                row.temperature)
    IN  [row EXCEPT !.latitude   = to_numeric(row.latitude),
                    !.longitude  = to_numeric(row.longitude),
                    !.status     = status,
                    !.suggestion = get_suggestion(status)]

\* ClassifiedFrame giving every row the status of the frame's mean readings.
RECURSIVE ColumnSum(_, _, _)
ColumnSum(rows, column, i) ==
    IF i > Len(rows) THEN 0 ELSE rows[i][column] + ColumnSum(rows, column, i + 1)

ClassifiedFrame_averaged(rows) ==
    LET status == classify_land(ColumnSum(rows, "vegetation_index", 1) \div Len(rows),
                                ColumnSum(rows, "soil_moisture", 1) \div Len(rows),
                                ColumnSum(rows, "temperature", 1) \div Len(rows))
    IN  [i \in 1..Len(rows) |->
            [rows[i] EXCEPT !.latitude   = to_numeric(rows[i].latitude),
                            !.longitude  = to_numeric(rows[i].longitude),
                            !.status     = status,
                            !.suggestion = get_suggestion(status)]]

\* data.apply(..., axis=1): one result per row, in row order.
ClassifiedFrame(rows) == [i \in 1..Len(rows) |-> ClassifiedRow(rows[i])]

Classify ==
    /\ pc = "display"
    /\ data # <<>>
    /\ data' = ClassifiedFrame(data)
    /\ pc' = "map"
    /\ UNCHANGED <<land_data, markers, map_shown, table, messages, form,
                   insert_data, args, results>>

NoData ==
    /\ pc = "display"
    /\ data = <<>>
    /\ pc' = "form"
    /\ UNCHANGED <<land_data, data, markers, map_shown, table, messages, form,
                   insert_data, args, results>>

\* The test of line 88 with "or" for "and".
HasCoordinates_either(row) == notnull(row.latitude) \/ notnull(row.longitude)

\* The test of line 88.
HasCoordinates(row) == notnull(row.latitude) /\ notnull(row.longitude)

\* folium.CircleMarker(...) of lines 89-102 for the row at index i.
CircleMarker(row, i) ==
    [row        |-> i,
     location   |-> <<row.latitude.num, row.longitude.num>>,
     color      |-> get_color(row.status),
     fill_color |-> get_color(row.status),
     popup      |-> <<row.location, row.status, row.suggestion>>]

\* The loop of lines 87-102 from index i on.
RECURSIVE AddPoints(_, _)
AddPoints(rows, i) ==
    IF i > Len(rows) THEN <<>>
    ELSE (IF HasCoordinates(rows[i]) THEN <<CircleMarker(rows[i], i)>>
          ELSE <<>>) \o AddPoints(rows, i + 1)

ShowMap ==
    /\ pc = "map"
    /\ markers' = AddPoints(data, 1)
    /\ map_shown' = TRUE
    /\ pc' = "table"
    /\ UNCHANGED <<land_data, data, table, messages, form, insert_data,
                   args, results>>

\* The column selection of lines 123-124 (the rows keep their order).
TableRow(row) ==
    [location         |-> row.location,
     latitude         |-> row.latitude,
     longitude        |-> row.longitude,
     soil_moisture    |-> row.soil_moisture,
     vegetation_index |-> row.vegetation_index,
     temperature      |-> row.temperature,
     status           |-> row.status,
     suggestion       |-> row.suggestion,
     timestamp        |-> row.timestamp]

ShowTable ==
    /\ pc = "table"
    /\ table' = [i \in 1..Len(data) |-> TableRow(data[i])]
    /\ pc' = "form"
    /\ UNCHANGED <<land_data, data, markers, map_shown, messages, form,
                   insert_data, args, results>>

----------------------------------------------------------------------------
(* Data input form (lines 132-168).                                        *)

\* Values the widgets can hold: the defaults (0 for both coordinates,
\* vegetation index 0.5, soil moisture 40, temperature 28) and others
\* inside the widgets' ranges.
FormLatitudes  == {0, 9}
FormLongitudes == {0, 8}
FormReadings ==
    { [soil_moisture |-> 40, vegetation_index |-> 50, temperature |-> 28],
      [soil_moisture |-> 32, vegetation_index |-> 50, temperature |-> 34],
      [soil_moisture |-> 0,  vegetation_index |-> 100, temperature |-> 60] }

\* What geolocator.reverse(...) does when called: returns a Location,
\* returns None (no result), or raises (network, rate limit).
LookupOutcomes == {"address", "none", "raises"}

\* Line 138: the lookup is made only when both coordinates are truthy.
LookupMade(latitude, longitude) == latitude # 0 /\ longitude # 0

\* Lines 137-142: location_name starts empty; reading .address of None and
\* a raised error both reach the bare except.
reverse_geocode(latitude, longitude, outcome) ==
    IF LookupMade(latitude, longitude)
    THEN IF outcome = "address" THEN "Resolved Address"
         ELSE "Unknown Location"
    ELSE ""

\* The form before line 132 is reached.
NoForm == [rendered |-> FALSE]

RenderForm ==
    /\ pc = "form"
    /\ \E latitude \in FormLatitudes, longitude \in FormLongitudes,
          outcome \in LookupOutcomes, r \in FormReadings, submit \in BOOLEAN :
          /\ ~LookupMade(latitude, longitude) => outcome = "address"
          /\ form' = [rendered         |-> TRUE,
                      lookup           |-> IF LookupMade(latitude, longitude)
                                           THEN outcome ELSE "skipped",
                      latitude         |-> latitude,
                      longitude        |-> longitude,
                      location_name    |-> reverse_geocode(latitude, longitude,
                                                           outcome),
                      vegetation_index |-> r.vegetation_index,
                      soil_moisture    |-> r.soil_moisture,
                      temperature      |-> r.temperature,
                      submit           |-> submit]
          /\ pc' = IF submit THEN "submit" ELSE "done"
    /\ UNCHANGED <<land_data, data, markers, map_shown, table, messages,
                   insert_data, args, results>>

\* Lines 150-162: the record built on submit.
InsertData(f) ==
    LET status == classify_land(f.vegetation_index, f.soil_moisture,
                                f.temperature)
    IN  [location         |-> f.location_name,
         latitude         |-> Num(f.latitude),
         longitude        |-> Num(f.longitude),
         soil_moisture    |-> f.soil_moisture,
         vegetation_index |-> f.vegetation_index,
         temperature      |-> f.temperature,
         status           |-> status,
         suggestion       |-> get_suggestion(status)]

Submit ==
    /\ pc = "submit"
    /\ insert_data' = <<InsertData(form)>>
    /\ pc' = "insert"
    /\ UNCHANGED <<land_data, data, markers, map_shown, table, messages, form,
                   args, results>>

InsertOk ==
    /\ pc = "insert"
    /\ land_data' = Append(land_data, Stored(insert_data[1], Len(land_data) + 1))
    /\ messages' = Append(messages, "success: Data successfully added!")
    /\ pc' = "done"
    /\ UNCHANGED <<data, markers, map_shown, table, form, insert_data, args,
                   results>>

InsertFailed ==
    /\ pc = "insert"
    /\ messages' = Append(messages, "error: Failed to add data")
    /\ pc' = "done"
    /\ UNCHANGED <<land_data, data, markers, map_shown, table, form,
                   insert_data, args, results>>

----------------------------------------------------------------------------
(* One run of the page script.                                             *)

Init ==
    /\ pc = "fetch"
    /\ land_data \in Tables
    /\ data = <<>>
    /\ markers = <<>>
    /\ map_shown = FALSE
    /\ table = <<>>
    /\ messages = <<>>
    /\ form = NoForm
    /\ insert_data = <<>>
    /\ args = <<>>
    /\ results = <<>>

Next ==
    \/ FetchOk
    \/ FetchFailed
    \/ Classify
    \/ NoData
    \/ ShowMap
    \/ ShowTable
    \/ RenderForm
    \/ Submit
    \/ InsertOk
    \/ InsertFailed

Spec == Init /\ [][Next]_vars

----------------------------------------------------------------------------
(* The classifier on its own: the calls of lines 150-151 applied to two    *)
(* reading triples drawn from a grid around every threshold.               *)

VegetationValues == {-10, 29, 30, 39, 40, 49, 50, 60, 110}
SoilValues       == {-5, 10, 19, 20, 29, 30, 34, 35, 39, 40, 50}
TemperatureValues == {25, 33, 34, 35, 36}

Readings ==
    [soil_moisture : SoilValues, vegetation_index : VegetationValues,
     temperature : TemperatureValues]

\* status = classify_land(...); suggestion = get_suggestion(status).
StatusAndSuggestion(r) ==
    LET status == classify_land(r.vegetation_index, r.soil_moisture,
                                r.temperature)
    IN  [status |-> status, suggestion |-> get_suggestion(status)]

InitClassify ==
    /\ pc = "call"
    /\ args \in [1..2 -> Readings]
    /\ results = <<>>
    /\ land_data = <<>>
    /\ data = <<>>
    /\ markers = <<>>
    /\ map_shown = FALSE
    /\ table = <<>>
    /\ messages = <<>>
    /\ form = NoForm
    /\ insert_data = <<>>

CallClassify ==
    /\ pc = "call"
    /\ results' = [i \in 1..2 |-> StatusAndSuggestion(args[i])]
    /\ pc' = "returned"
    /\ UNCHANGED <<land_data, data, markers, map_shown, table, messages, form,
                   insert_data, args>>

NextClassify == CallClassify

SpecClassify == InitClassify /\ [][NextClassify]_vars

----------------------------------------------------------------------------
(* Properties of the classifier, checked under SpecClassify.               *)

Returned == pc = "returned"

\* The maintain-current-practices message.
MaintainMessage == "Land is healthy. Maintain current practices."

\* C1 as stated: every triple with soil_moisture < 30 or temperature > 35
\* or vegetation_index < 0.3 is classified Degraded.
C1_AsStated ==
    Returned =>
        \A i \in 1..2 :
            (args[i].soil_moisture < 30 \/ args[i].temperature > 35
                \/ args[i].vegetation_index < 30)
            => results[i].status = Degraded

\* C1 amended: every triple with soil_moisture < 20 or temperature > 35 or
\* vegetation_index < 0.3 is classified Degraded, whatever the other two
\* readings are.
C1_DegradedTier ==
    Returned =>
        \A i \in 1..2 :
            (args[i].soil_moisture < 20 \/ args[i].temperature > 35
                \/ args[i].vegetation_index < 30)
            => results[i].status = Degraded

\* soil_moisture 10, vegetation_index 0.6, temperature 25 was classified
\* Degraded: the moisture axis alone.
C1_Witness ==
    /\ Returned
    /\ args[1] = [soil_moisture |-> 10, vegetation_index |-> 60,
                  temperature |-> 25]
    /\ results[1].status = Degraded

\* C2 as stated: with no Degraded condition of the default thresholds
\* (soil_moisture >= 30, temperature <= 35, vegetation_index >= 0.3), every
\* triple with soil_moisture < 40 or temperature > 33 or vegetation_index <
\* 0.4 is classified AtRisk.
C2_AsStated ==
    Returned =>
        \A i \in 1..2 :
            (/\ args[i].soil_moisture >= 30
             /\ args[i].temperature <= 35
             /\ args[i].vegetation_index >= 30
             /\ \/ args[i].soil_moisture < 40
                \/ args[i].temperature > 33
                \/ args[i].vegetation_index < 40)
            => results[i].status = AtRisk

\* C2 amended: with no Degraded condition (soil_moisture >= 20, temperature
\* <= 35, vegetation_index >= 0.3), every triple with soil_moisture < 35 or
\* vegetation_index < 0.5 is classified At Risk; in particular every triple
\* with 20 <= soil_moisture < 35 and no Degraded condition.
C2_AtRiskTier ==
    Returned =>
        \A i \in 1..2 :
            (/\ args[i].soil_moisture >= 20
             /\ args[i].temperature <= 35
             /\ args[i].vegetation_index >= 30
             /\ \/ args[i].soil_moisture < 35
                \/ args[i].vegetation_index < 50)
            => results[i].status = AtRisk

\* A triple with soil moisture between the tiers and nothing else wrong was
\* classified At Risk.
C2_Witness ==
    /\ Returned
    /\ args[1] = [soil_moisture |-> 30, vegetation_index |-> 60,
                  temperature |-> 25]
    /\ results[1].status = AtRisk

\* C3 as stated: every triple with soil_moisture >= 40, temperature <= 33
\* and vegetation_index >= 0.4 is classified Healthy, with the
\* maintain-current-practices message.
C3_AsStated ==
    Returned =>
        \A i \in 1..2 :
            (/\ args[i].soil_moisture >= 40
             /\ args[i].temperature <= 33
             /\ args[i].vegetation_index >= 40)
            => /\ results[i].status = Healthy
               /\ results[i].suggestion = MaintainMessage

\* C3 amended: every triple with soil_moisture >= 35, temperature <= 35 and
\* vegetation_index >= 0.5 is classified Healthy, with the
\* maintain-current-practices message.
C3_HealthyTier ==
    Returned =>
        \A i \in 1..2 :
            (/\ args[i].soil_moisture >= 35
             /\ args[i].temperature <= 35
             /\ args[i].vegetation_index >= 50)
            => /\ results[i].status = Healthy
               /\ results[i].suggestion = MaintainMessage

\* soil_moisture 50, vegetation_index 0.6, temperature 25 was classified
\* Healthy and given the maintenance message.
C3_Witness ==
    /\ Returned
    /\ args[1] = [soil_moisture |-> 50, vegetation_index |-> 60,
                  temperature |-> 25]
    /\ results[1].status = Healthy
    /\ results[1].suggestion = MaintainMessage

\* Healthy < AtRisk < Degraded.
Severity(status) ==
    IF status = Healthy THEN 0 ELSE IF status = AtRisk THEN 1 ELSE 2

\* The second triple is no better than the first on any axis.
NoBetter(a, b) ==
    /\ b.vegetation_index <= a.vegetation_index
    /\ b.soil_moisture <= a.soil_moisture
    /\ b.temperature >= a.temperature

\* C10: the classifier is monotone in severity: when the second triple has
\* vegetation_index no higher, soil_moisture no higher and temperature no
\* lower than the first, its status is at least as severe.
C10_Monotone ==
    Returned =>
        (NoBetter(args[1], args[2])
         => Severity(results[2].status) >= Severity(results[1].status))

\* A healthy triple and one that is worse on one axis only, whose status
\* became more severe.
C10_Witness ==
    /\ Returned
    /\ NoBetter(args[1], args[2])
    /\ args[1] # args[2]
    /\ results[1].status = Healthy
    /\ results[2].status = AtRisk

----------------------------------------------------------------------------
(* Properties of the page run, checked under Spec.                         *)

Statuses == {Healthy, AtRisk, Degraded}

\* The rows were fetched and classified (line 72 has run).
Classified == data # <<>> /\ pc \notin {"fetch", "display"}

\* The display section has run to its end (line 124).
Displayed == data # <<>> /\ pc \in {"form", "submit", "insert", "done"}

ReadingsOf(row) ==
    <<row.soil_moisture, row.vegetation_index, row.temperature>>

Has(message) == \E k \in 1..Len(messages) : messages[k] = message

\* C4: every status attached to a displayed row (table row, marker popup)
\* or to a submitted record is one of the three status values, also for
\* readings outside the expected ranges.
C4_StatusEnum ==
    /\ \A i \in 1..Len(table) : table[i].status \in Statuses
    /\ \A k \in 1..Len(markers) : markers[k].popup[2] \in Statuses
    /\ \A i \in 1..Len(insert_data) : insert_data[i].status \in Statuses

\* A row with negative soil moisture and vegetation index above 1 is shown
\* with a status, and a record has been submitted with one.
C4_Witness ==
    /\ \E i \in 1..Len(table) :
          /\ table[i].soil_moisture < 0
          /\ table[i].vegetation_index > 100
          /\ table[i].status = Degraded
    /\ \E k \in 1..Len(markers) : markers[k].popup[2] = Healthy
    /\ insert_data # <<>>
    /\ insert_data[1].status = AtRisk

\* The observations that carry a status in this run: the displayed rows
\* and the submitted record.
Observation(row) ==
    [location |-> row.location, latitude |-> row.latitude,
     longitude |-> row.longitude, readings |-> ReadingsOf(row),
     status |-> row.status, suggestion |-> row.suggestion]

Observations ==
    { Observation(table[i]) : i \in 1..Len(table) }
        \cup { Observation(insert_data[i]) : i \in 1..Len(insert_data) }

\* C5: two observations with equal soil_moisture, vegetation_index and
\* temperature carry the same status and the same suggestion, whatever
\* their location, coordinates or stored status.
C5_ReadingsOnly ==
    \A a \in Observations, b \in Observations :
        a.readings = b.readings
        => a.status = b.status /\ a.suggestion = b.suggestion

\* Two displayed rows with equal readings that differ in location,
\* latitude, timestamp and stored status, and a submitted record with the readings of
\* a displayed row.
C5_Witness ==
    /\ Len(table) = 2
    /\ ReadingsOf(table[1]) = ReadingsOf(table[2])
    /\ table[1].location # table[2].location
    /\ table[1].latitude # table[2].latitude
    /\ table[1].timestamp # table[2].timestamp
    /\ land_data[1].status # land_data[2].status
    /\ table[1].status = table[2].status
    /\ insert_data # <<>>
    /\ ReadingsOf(insert_data[1]) = ReadingsOf(table[1])
    /\ insert_data[1].location # table[1].location

\* The number of rows the table held when it was fetched: a successful
\* insert of this run has appended one since.
FetchedRows ==
    Len(land_data) - (IF Has("success: Data successfully added!") THEN 1 ELSE 0)

\* C6: for a non-empty fetched sequence there is exactly one (status,
\* suggestion) entry per fetched observation, in the fetched order, and
\* entry i is the classifier applied to the readings of observation i.
C6_RowLevel ==
    Classified =>
        /\ Len(data) = FetchedRows
        /\ \A i \in 1..Len(data) :
              /\ data[i].location = land_data[i].location
              /\ ReadingsOf(data[i]) = ReadingsOf(land_data[i])
              /\ data[i].status =
                    classify_land(land_data[i].vegetation_index,
                                  land_data[i].soil_moisture,
                                  land_data[i].temperature)
              /\ data[i].suggestion = get_suggestion(data[i].status)

\* Two fetched rows of different status, the more severe first.
C6_Witness ==
    /\ Classified
    /\ Len(data) = 2
    /\ data[1].status = Degraded
    /\ data[2].status = Healthy
    /\ land_data[1].status = Healthy

\* A stored coordinate that is null or not numeric.
Missing(cell) ==
    \/ cell.kind = "null"
    \/ cell.kind = "text" /\ cell.text \notin NumericTexts

\* The marker colours of the legend (lines 111-113).
LegendColor(status) ==
    CASE status = Healthy  -> "green"
      [] status = AtRisk   -> "orange"
      [] status = Degraded -> "red"

MarkersOf(i) == { k \in 1..Len(markers) : markers[k].row = i }

\* C7: once the display section has run, a row whose latitude or longitude
\* is missing has no marker but is classified and in the data table; a row
\* with both coordinates has exactly one marker, of its status's colour.
C7_Markers ==
    Displayed =>
        /\ Len(table) = Len(data)
        /\ \A k \in 1..Len(markers) : markers[k].row \in 1..Len(data)
        /\ \A i \in 1..Len(data) :
              /\ table[i].location = land_data[i].location
              /\ ReadingsOf(table[i]) = ReadingsOf(land_data[i])
              /\ table[i].status \in Statuses
              /\ IF Missing(land_data[i].latitude)
                        \/ Missing(land_data[i].longitude)
                 THEN MarkersOf(i) = {}
                 ELSE /\ Cardinality(MarkersOf(i)) = 1
                      /\ \A k \in MarkersOf(i) :
                            /\ markers[k].color = LegendColor(table[i].status)
                            /\ markers[k].fill_color = markers[k].color

\* A row without latitude that is in the table and has no marker, next to
\* a row whose latitude is a numeric text and that has the only marker.
C7_Witness ==
    /\ Displayed
    /\ Len(data) = 2
    /\ land_data[1].latitude = Null
    /\ land_data[2].latitude = Text("9")
    /\ table[1].status = AtRisk
    /\ Len(markers) = 1
    /\ markers[1].row = 2
    /\ markers[1].color = "red"

\* C8: a repository failure is not fatal.  The script never stops short of
\* its end; after a failed fetch the data set is empty, neither map nor
\* table is shown, the error is shown and the form is still rendered; a
\* submission ends with the insert's success or its error reported.
C8_NotFatal ==
    /\ pc \in {"fetch", "display", "map", "table", "form", "submit",
               "insert", "done"}
    /\ pc # "done" => ENABLED Next
    /\ Has("error: Failed to fetch data") =>
          /\ data = <<>> /\ markers = <<>> /\ ~map_shown /\ table = <<>>
          /\ pc \in {"display", "form", "submit", "insert", "done"}
    /\ pc = "done" => form.rendered
    /\ (pc = "done" /\ form.submit) =>
          \/ /\ Has("success: Data successfully added!")
             /\ land_data[Len(land_data)] =
                    Stored(insert_data[1], Len(land_data))
          \/ /\ Has("error: Failed to add data")
             /\ ~Has("success: Data successfully added!")

\* A run in which both the fetch and the insert failed and that reached
\* its end with the table untouched.
C8_Witness ==
    /\ pc = "done"
    /\ Has("error: Failed to fetch data")
    /\ Has("error: Failed to add data")
    /\ form.rendered
    /\ Len(land_data) = 2

\* C9: every submitted record's location is a resolved name or the
\* placeholder, also when the lookup raised or was not performed.
C9_LocationOrPlaceholder ==
    \A i \in 1..Len(insert_data) :
        insert_data[i].location \in {"Resolved Address", "Unknown Location"}

====
